---- MODULE Spec2Model ----
(***************************************************************************)
(* A model of chartWidPattrn_1DayIntraday.py: SymbolScraper.scrape (the    *)
(* bounded retry loop over a listing page), PatternDetector.detect (the    *)
(* candlestick predicates) and ChartGenerator.run (the interactive         *)
(* pipeline that ties them together and writes the chart and the CSV).     *)
(*                                                                         *)
(* Prices are integers counted in ticks of 0.005 price units, so that the  *)
(* thresholds 0.03 and 0.1 of detect are the integers 6 and 20 and the     *)
(* comparisons are exact.  NaN prices are not modelled.  Texts are atomic  *)
(* strings; str.strip and int() are modelled on the finite set of texts    *)
(* the inputs are drawn from.                                              *)
(***************************************************************************)
EXTENDS Integers, Sequences, FiniteSets, TLC

(* ------------------------------ bounds -------------------------------- *)

\* open and close take the values Base .. Base + MaxPrice (ticks)
MaxPrice == 3
\* longest price series handed to detect on its own
MaxLen == 2
\* longest price series the series feed returns inside run
MaxRunLen == 1
\* most matching rows on a listing page
MaxRows == 3
\* largest retries a SymbolScraper is constructed with, on its own
MaxRetries == 3
\* max_items of scrape on its own, and the stock count typed in run,
\* range over -MaxCount .. MaxCount
MaxCount == 2
\* the selection typed in run ranges over -MaxChoice .. MaxChoice
MaxChoice == 6

(* ------------------------- program constants -------------------------- *)

DefaultRetries == 3
DefaultDelay == 2
FundsMaxItems == 10
\* 0.03 and 0.1 in ticks of 0.005
DojiBody == 6
DojiRange == 20

DefaultStocks == <<"AAPL", "MSFT", "GOOG", "AMZN", "TSLA">>
DefaultFunds == <<"VFIAX", "SWPPX", "FXAIX", "VTSAX", "SPY">>

(* ------------------------------ helpers ------------------------------- *)

Max2(a, b) == IF a > b THEN a ELSE b
Min2(a, b) == IF a < b THEN a ELSE b

\* abs()
Abs(x) == IF x < 0 THEN -x ELSE x

\* str.strip() on the texts of the model
Strip(s) ==
    CASE s = "  " -> ""
      [] s = " BBB " -> "BBB"
      [] s = " 2 " -> "2"
      [] OTHER -> s

\* int(s) on an already stripped text: the integer, or ValueError
NumRange == -(MaxCount + MaxChoice + 1) .. (MaxCount + MaxChoice + 1)
ParseInt(s) ==
    IF \E n \in NumRange : ToString(n) = s
    THEN [ok |-> TRUE, val |-> CHOOSE n \in NumRange : ToString(n) = s]
    ELSE [ok |-> FALSE, val |-> 0]

\* seq[:m] of Python: the first m elements, or all but the last -m
PySliceTo(seq, m) ==
    LET n == Len(seq)
        k == IF m >= 0 THEN Min2(m, n) ELSE Max2(n + m, 0)
    IN  SubSeq(seq, 1, k)

\* seq[j] of Python with a 0-based j: a negative j counts from the end,
\* and IndexError outside -len .. len-1
PyIndexOk(seq, j) == (-Len(seq)) <= j /\ j < Len(seq)
PyIndex(seq, j) == IF j >= 0 THEN seq[j + 1] ELSE seq[Len(seq) + j + 1]

(* ------------------------------- state -------------------------------- *)

VARIABLES
    \* SymbolScraper and the frame of one scrape call
    retries, delay, max_items, attempt, symbols, rows, result, spc,
    \* what the call did so far: its fetches and sleeps, in order
    log,
    \* the frame of one detect call made on its own
    df, dpc,
    \* ChartGenerator.run
    pc, category, count, scraped, ticker_list, fallback, choice, tag,
    ticker, interval, data, patterns, written

scrapeVars == <<retries, delay, max_items, attempt, symbols, rows, result, spc, log>>
detectVars == <<df, dpc>>
runVars == <<pc, category, count, scraped, ticker_list, fallback, choice, tag,
             ticker, interval, data, patterns, written>>
vars == <<scrapeVars, detectVars, runVars>>

(* --------------------------- the input sets --------------------------- *)

\* a row of class simpTblRow: without a td, or with a td and its text
NoTd == [td |-> FALSE, text |-> ""]
CellTexts == {"  ", "AAA", " BBB "}
Rows == {NoTd} \cup { [td |-> TRUE, text |-> t] : t \in CellTexts }
Pages == UNION { [1..n -> Rows] : n \in 0..MaxRows }

Delays == {0, DefaultDelay}

\* a candle: open and close on the price levels, a lower and an upper wick
Base == 30
Levels == Base .. (Base + MaxPrice)
LowWicks == {0, 7, 21}
UpWicks == {0, 1}
StartTime == 570
Steps == [m1 |-> 1, d1 |-> 1440]
Candle(o, c, lw, uw) ==
    [Open |-> o, High |-> Max2(o, c) + uw, Low |-> Min2(o, c) - lw, Close |-> c]
Candles == { Candle(o, c, lw, uw) : o \in Levels, c \in Levels, lw \in LowWicks, uw \in UpWicks }
\* the candles the series feed of run answers with
RunCandles == { Candle(Base + 1, c, lw, 0) : c \in Levels, lw \in LowWicks }

\* a price series: its rows in index order, each with its timestamp
\* (minutes), the timestamps strictly increasing
Stamped(cs, step) ==
    [i \in 1..Len(cs) |-> [Index |-> StartTime + (i - 1) * step, Open |-> cs[i].Open,
                           High |-> cs[i].High, Low |-> cs[i].Low, Close |-> cs[i].Close]]
RunFrames(step) ==
    { Stamped(cs, step) : cs \in UNION { [1..n -> RunCandles] : n \in 0..MaxRunLen } }

CategoryInputs == {"1", " 2 ", "3"}
CountInputs == {"abc"} \cup { ToString(n) : n \in -MaxCount..MaxCount }
ChoiceInputs == {"abc", "", " 2 "} \cup { ToString(n) : n \in -MaxChoice..MaxChoice }

(* ------------------------ SymbolScraper.scrape ------------------------ *)

\* the symbol one row contributes: none without a td (AttributeError) or
\* when the stripped text is empty
RowSymbol(row) ==
    IF ~row.td THEN << >>
    ELSE IF Strip(row.text) # "" THEN << Strip(row.text) >> ELSE << >>

RECURSIVE SymbolsOf(_)
SymbolsOf(rs) ==
    IF rs = << >> THEN << >> ELSE RowSymbol(Head(rs)) \o SymbolsOf(Tail(rs))

\* the slice forgotten: every row of the page is read
ExtractSymbolsAllRows(rs, m) == SymbolsOf(rs)

\* for row in rows[:max_items]: ... symbols.append(symbol)
ExtractSymbols(rs, m) == SymbolsOf(PySliceTo(rs, m))

\* the loop bound off by one
LoopGuardOffByOne(a, r) == a <= r

\* while attempt < self.retries
LoopGuard(a, r) == a < r

\* requests.get: answered ("fetch_ok"), failed with a RequestException
\* ("fetch_fail"), or ended the try with another exception ("fetch_error")
Fetch(how) == [ev |-> how, dur |-> 0]
\* time.sleep(d)
Sleep(d) == [ev |-> "sleep", dur |-> d]

\* what one failed fetch appends to the log: the fetch, then time.sleep
OnFailure(d) == << Fetch("fetch_fail"), Sleep(d) >>

\* scrape(url, max_items=m) is entered
ScrapeEnter(m) ==
    /\ max_items' = m
    /\ symbols' = << >>
    /\ attempt' = 0
    /\ rows' = << >>
    /\ result' = << >>
    /\ log' = << >>
    /\ spc' = "loop"

\* one turn of the loop: requests.get or raise_for_status raises a RequestException
ScrapeFail ==
    /\ spc = "loop"
    /\ LoopGuard(attempt, retries)
    /\ log' = log \o OnFailure(delay)
    /\ attempt' = attempt + 1
    /\ UNCHANGED <<retries, delay, max_items, symbols, rows, result, spc>>
    /\ UNCHANGED <<detectVars, runVars>>

\* one turn of the loop: the page arrives and its rows are read
ScrapePage ==
    /\ spc = "loop"
    /\ LoopGuard(attempt, retries)
    /\ \E page \in Pages :
         LET got == symbols \o ExtractSymbols(page, max_items) IN
         /\ rows' = page
         /\ symbols' = got
         /\ log' = Append(log, Fetch("fetch_ok"))
         /\ IF got # << >>
            THEN /\ result' = got
                 /\ spc' = "returned"
                 /\ UNCHANGED attempt
            ELSE /\ attempt' = attempt + 1
                 /\ UNCHANGED <<result, spc>>
    /\ UNCHANGED <<retries, delay, max_items>>
    /\ UNCHANGED <<detectVars, runVars>>

\* one turn of the loop: the try body raises something that is no
\* RequestException, which leaves scrape
ScrapeRaise ==
    /\ spc = "loop"
    /\ LoopGuard(attempt, retries)
    /\ log' = Append(log, Fetch("fetch_error"))
    /\ spc' = "raised"
    /\ UNCHANGED <<retries, delay, max_items, attempt, symbols, rows, result>>
    /\ UNCHANGED <<detectVars, runVars>>

\* the loop is over: return symbols
ScrapeExhausted ==
    /\ spc = "loop"
    /\ ~LoopGuard(attempt, retries)
    /\ result' = symbols
    /\ spc' = "returned"
    /\ UNCHANGED <<retries, delay, max_items, attempt, symbols, rows, log>>
    /\ UNCHANGED <<detectVars, runVars>>

(* ----------------------- PatternDetector.detect ----------------------- *)

IsDoji(row) ==
    LET body == Abs(row.Close - row.Open)
        range_ == row.High - row.Low
    IN  body < DojiBody /\ range_ > DojiRange

\* the upper shadow measured from the open instead of the close
IsHammerShadowFromOpen(row) ==
    LET body == Abs(row.Close - row.Open) IN
    /\ row.Close > row.Open
    /\ (row.Open - row.Low) > 2 * body
    /\ (row.High - row.Open) < body

IsHammer(row) ==
    LET body == Abs(row.Close - row.Open) IN
    /\ row.Close > row.Open
    /\ (row.Open - row.Low) > 2 * body
    /\ (row.High - row.Close) < body

\* the pattern taken in both directions
IsEngulfingEitherWay(prev, row) ==
    \/ /\ prev.Close < prev.Open
       /\ row.Close > row.Open
       /\ row.Close > prev.Open
       /\ row.Open < prev.Close
    \/ /\ prev.Close > prev.Open
       /\ row.Close < row.Open
       /\ row.Close < prev.Open
       /\ row.Open > prev.Close

IsEngulfing(prev, row) ==
    /\ prev.Close < prev.Open
    /\ row.Close > row.Open
    /\ row.Close > prev.Open
    /\ row.Open < prev.Close

Event(t, label) == [Time |-> t, Pattern |-> label]

\* two independent ifs instead of if / elif
ShapeEventsIfIf(row) ==
    (IF IsDoji(row) THEN << Event(row.Index, "Doji") >> ELSE << >>)
    \o (IF IsHammer(row) THEN << Event(row.Index, "Hammer") >> ELSE << >>)

\* the if / elif of one candle
ShapeEvents(row) ==
    IF IsDoji(row) THEN << Event(row.Index, "Doji") >>
    ELSE IF IsHammer(row) THEN << Event(row.Index, "Hammer") >>
    ELSE << >>

\* the if i > 0 of one candle (the index i is 1-based here)
EngulfingEvents(frame, i) ==
    IF i > 1 /\ IsEngulfing(frame[i - 1], frame[i])
    THEN << Event(frame[i].Index, "Engulfing") >>
    ELSE << >>

\* what the loop body appends for candle i
RowEvents(frame, i) == ShapeEvents(frame[i]) \o EngulfingEvents(frame, i)

RECURSIVE DetectUpTo(_, _)
DetectUpTo(frame, n) ==
    IF n = 0 THEN << >> ELSE DetectUpTo(frame, n - 1) \o RowEvents(frame, n)

detect(frame) == DetectUpTo(frame, Len(frame))

\* a detect call on its own
DetectCall ==
    /\ dpc = "call"
    /\ patterns' = detect(df)
    /\ dpc' = "done"
    /\ UNCHANGED <<df, scrapeVars, pc, category, count, scraped, ticker_list, fallback,
                   choice, tag, ticker, interval, data, written>>

(* ------------------------- ChartGenerator.run ------------------------- *)

\* the handler narrowed to the ValueError the try raises itself
CatchesValueErrorOnly(kind) == kind = "ValueError"

\* except Exception: every exception raised in the try is handled
Catches(kind) == TRUE

\* the check of an empty series left out
DataEmptyNever(frame) == FALSE

\* data.empty
DataEmpty(frame) == Len(frame) = 0

\* if patterns:
HasPatterns(events) == events # << >>

DefaultList(cat) == IF cat = "1" THEN DefaultStocks ELSE DefaultFunds

File(kind, t, g, stamp) == [kind |-> kind, ticker |-> t, tag |-> g, stamp |-> stamp]

\* the category is read; scraper = SymbolScraper(); category '2' goes on to
\* scrape(mf_url, max_items=10)
RunCategory ==
    /\ pc = "start"
    /\ \E inp \in CategoryInputs :
         /\ category' = Strip(inp)
         /\ retries' = DefaultRetries
         /\ delay' = DefaultDelay
         /\ IF Strip(inp) = "1"
            THEN /\ pc' = "ask_count"
                 /\ UNCHANGED <<max_items, attempt, symbols, rows, result, spc, log>>
            ELSE IF Strip(inp) = "2"
            THEN /\ pc' = "scraping"
                 /\ ScrapeEnter(FundsMaxItems)
            ELSE /\ pc' = "invalid_category"
                 /\ UNCHANGED <<max_items, attempt, symbols, rows, result, spc, log>>
    /\ UNCHANGED <<detectVars, count, scraped, ticker_list, fallback, choice, tag,
                   ticker, interval, data, patterns, written>>

\* the stock count is read; int(count) raises ValueError, which the except
\* turns into the default list, or scrape(stock_url, max_items=count) starts
RunCount ==
    /\ pc = "ask_count"
    /\ \E inp \in CountInputs :
         /\ count' = Strip(inp)
         /\ IF ParseInt(Strip(inp)).ok
            THEN /\ pc' = "scraping"
                 /\ ScrapeEnter(ParseInt(Strip(inp)).val)
                 /\ UNCHANGED <<ticker_list, fallback>>
            ELSE /\ IF Catches("ValueError")
                    THEN /\ ticker_list' = DefaultStocks
                         /\ fallback' = TRUE
                         /\ pc' = "ask_choice"
                    ELSE /\ pc' = "crashed"
                         /\ UNCHANGED <<ticker_list, fallback>>
                 /\ UNCHANGED <<max_items, attempt, symbols, rows, result, spc, log>>
    /\ UNCHANGED <<retries, delay, detectVars, category, scraped, choice, tag,
                   ticker, interval, data, patterns, written>>

\* scrape is over: its list when it returned a non-empty one; otherwise the
\* ValueError raised on an empty list, or the exception scrape raised,
\* reaches the except, which sets the default list.  The list is printed.
RunAfterScrape ==
    /\ pc = "scraping"
    /\ spc \in {"returned", "raised"}
    /\ scraped' = [kind |-> spc, value |-> result]
    /\ IF spc = "returned" /\ result # << >>
       THEN /\ ticker_list' = result
            /\ fallback' = FALSE
            /\ pc' = "ask_choice"
       ELSE IF Catches(IF spc = "raised" THEN "Exception" ELSE "ValueError")
       THEN /\ ticker_list' = DefaultList(category)
            /\ fallback' = TRUE
            /\ pc' = "ask_choice"
       ELSE /\ pc' = "crashed"
            /\ UNCHANGED <<ticker_list, fallback>>
    \* the frame of scrape is gone
    /\ max_items' = 0
    /\ attempt' = 0
    /\ symbols' = << >>
    /\ rows' = << >>
    /\ result' = << >>
    /\ log' = << >>
    /\ spc' = "idle"
    /\ UNCHANGED <<retries, delay, detectVars, category, count, choice, tag,
                   ticker, interval, data, patterns, written>>

\* the selection is read: ticker = ticker_list[int(choice) - 1], and
\* IndexError or ValueError ends the run
RunChoice ==
    /\ pc = "ask_choice"
    /\ \E inp \in ChoiceInputs :
         /\ choice' = Strip(inp)
         /\ tag' = IF category = "1" THEN "Stock" ELSE "MF"
         /\ IF /\ ParseInt(Strip(inp)).ok
               /\ PyIndexOk(ticker_list, ParseInt(Strip(inp)).val - 1)
            THEN /\ ticker' = PyIndex(ticker_list, ParseInt(Strip(inp)).val - 1)
                 /\ interval' = IF category = "1" THEN "1m" ELSE "1d"
                 /\ pc' = "download"
            ELSE /\ pc' = "invalid_option"
                 /\ UNCHANGED <<ticker, interval>>
    /\ UNCHANGED <<scrapeVars, detectVars, category, count, scraped, ticker_list,
                   fallback, data, patterns, written>>

\* yf.download answers; an empty series ends the run; otherwise detect,
\* the chart, and the CSV when there are patterns
RunDownload ==
    /\ pc = "download"
    /\ \E frame \in RunFrames(IF interval = "1m" THEN Steps.m1 ELSE Steps.d1) :
         /\ data' = frame
         /\ IF DataEmpty(frame)
            THEN /\ pc' = "no_data"
                 /\ UNCHANGED <<patterns, written>>
            ELSE LET stamp == StartTime + (Len(frame) - 1) * (IF interval = "1m" THEN Steps.m1 ELSE Steps.d1)
                     chart == File("chart", ticker, tag, stamp)
                     csv == File("csv", ticker, tag, stamp)
                 IN  /\ patterns' = detect(frame)
                     /\ written' = IF HasPatterns(detect(frame))
                                   THEN <<chart, csv>> ELSE <<chart>>
                     /\ pc' = "done"
    /\ UNCHANGED <<scrapeVars, detectVars, category, count, scraped, ticker_list,
                   fallback, choice, tag, ticker, interval>>

(* --------------------------- specifications --------------------------- *)

IdleScrape ==
    /\ retries = 0 /\ delay = 0 /\ max_items = 0 /\ attempt = 0
    /\ symbols = << >> /\ rows = << >> /\ result = << >> /\ log = << >>
    /\ spc = "idle"

IdleDetect == df = << >> /\ dpc = "idle"

IdleRun ==
    /\ category = "" /\ count = "" /\ scraped = [kind |-> "none", value |-> << >>]
    /\ ticker_list = << >> /\ fallback = FALSE /\ choice = "" /\ tag = ""
    /\ ticker = "" /\ interval = "" /\ data = << >> /\ patterns = << >>
    /\ written = << >>

\* one scrape call of a scraper constructed with any retries and delay
InitScrape ==
    /\ retries \in 1..MaxRetries
    /\ delay \in Delays
    /\ max_items \in -MaxCount..MaxCount
    /\ attempt = 0 /\ symbols = << >> /\ rows = << >> /\ result = << >> /\ log = << >>
    /\ spc = "loop"
    /\ IdleDetect /\ IdleRun /\ pc = "none"

NextScrape == ScrapeFail \/ ScrapePage \/ ScrapeRaise \/ ScrapeExhausted

SpecScrape == InitScrape /\ [][NextScrape]_vars

\* one detect call on any price series
InitDetect ==
    /\ \E n \in 0..MaxLen : \E cs \in [1..n -> Candles] : df = Stamped(cs, Steps.m1)
    /\ dpc = "call"
    /\ IdleScrape /\ IdleRun /\ pc = "none"

NextDetect == DetectCall

SpecDetect == InitDetect /\ [][NextDetect]_vars

\* one run of ChartGenerator
InitRun == IdleScrape /\ IdleDetect /\ IdleRun /\ pc = "start"

NextRun ==
    \/ RunCategory
    \/ RunCount
    \/ ScrapeFail
    \/ ScrapePage
    \/ ScrapeRaise
    \/ ScrapeExhausted
    \/ RunAfterScrape
    \/ RunChoice
    \/ RunDownload

SpecRun == InitRun /\ [][NextRun]_vars

(* ------------------------- reading the state -------------------------- *)

IsFetch(e) == e.ev \in {"fetch_ok", "fetch_fail", "fetch_error"}
Fetches(l) == Cardinality({ k \in DOMAIN l : IsFetch(l[k]) })
Failures(l) == Cardinality({ k \in DOMAIN l : l[k].ev = "fetch_fail" })
Sleeps(l) == Cardinality({ k \in DOMAIN l : l[k].ev = "sleep" })
ScrapeEnded == spc \in {"returned", "raised"}

\* the row has a td whose text is not blank
YieldsSymbol(row) == row.td /\ row.text \notin {"", "  "}
\* the trimmed text of the row's td
TrimmedText(row) ==
    IF row.text = " BBB " THEN "BBB" ELSE row.text

\* the symbols of the first n rows of a page, in page order
RECURSIVE FirstSymbols(_, _)
FirstSymbols(page, n) ==
    IF n <= 0 THEN << >>
    ELSE FirstSymbols(page, n - 1) \o
         (IF n <= Len(page) /\ YieldsSymbol(page[n]) THEN << TrimmedText(page[n]) >> ELSE << >>)

EventsAt(events, t) == { k \in DOMAIN events : events[k].Time = t }
HasEvent(events, t, label) == \E k \in DOMAIN events : events[k] = [Time |-> t, Pattern |-> label]

(* ------------------------------- claims ------------------------------- *)

\* C2: in a scrape call whose first N fetches failed at transport level
\* and whose next fetch answered a page whose first max_items rows
\* (max_items >= 1) each yield a symbol, the call has returned exactly the
\* symbols of those rows, has made N + 1 fetches and N sleeps, each sleep
\* of the configured delay and each between two consecutive fetches.
C2_FailThenPage ==
    /\ max_items >= 1
    /\ log # << >>
    /\ log[Len(log)].ev = "fetch_ok"
    /\ \A k \in 1..(Len(log) - 1) : IsFetch(log[k]) => log[k].ev = "fetch_fail"
    /\ Len(rows) >= max_items
    /\ \A i \in 1..max_items : YieldsSymbol(rows[i])

C2_RetryThenLive ==
    C2_FailThenPage =>
        /\ spc = "returned"
        /\ Len(result) = max_items
        /\ \A i \in 1..max_items : result[i] = TrimmedText(rows[i])
        /\ Failures(log) < retries
        /\ Fetches(log) = Failures(log) + 1
        /\ Sleeps(log) = Failures(log)
        /\ \A k \in DOMAIN log : log[k].ev = "sleep" =>
              /\ log[k].dur = delay
              /\ k > 1 /\ IsFetch(log[k - 1])
              /\ k < Len(log) /\ IsFetch(log[k + 1])

C2_Witness ==
    /\ C2_FailThenPage
    /\ spc = "returned"
    /\ Failures(log) = 2
    /\ max_items = 2
    /\ Len(rows) = 3
    /\ result = <<"BBB", "AAA">>

\* C3: as long as no fetch of a scrape call has yielded a symbol (each one
\* failed at transport level or answered a page without a symbol), the call
\* has made at most retries fetches, one per turn of the loop, and it goes
\* on or returns; when it returns, it returns the empty list after exactly
\* retries fetches.
C3_NoSymbolYet == symbols = << >> /\ spc # "raised"

C3_ExhaustsAfterRetries ==
    C3_NoSymbolYet =>
        /\ Fetches(log) = attempt
        /\ Fetches(log) <= retries
        /\ spc = "loop" => ENABLED NextScrape
        /\ spc = "returned" => result = << >> /\ Fetches(log) = retries

C3_Witness ==
    /\ spc = "returned"
    /\ result = << >>
    /\ retries = 3
    /\ Failures(log) = 2
    /\ Fetches(log) = 3
    /\ Len(rows) = 2

\* C8: a scrape call that has returned returns no more symbols than
\* max_items (none for a max_items below 1): the symbols of the first
\* max_items rows of the page, in page order.
C8_AtMostMaxItems ==
    spc = "returned" =>
        /\ Len(result) <= Max2(max_items, 0)
        /\ result = FirstSymbols(rows, max_items)

\* C9: when a scrape call has ended, every sleep of the call was followed
\* by another fetch, so there are at most fetches - 1 sleeps and none
\* after the last fetch.
C9_SleepOnlyBetweenFetches ==
    ScrapeEnded =>
        /\ \A k \in DOMAIN log : log[k].ev = "sleep" => k < Len(log) /\ IsFetch(log[k + 1])
        /\ Sleeps(log) <= Fetches(log) - 1

\* the candles of the series detect was called on, read field by field
Body(row) == IF row.Close >= row.Open THEN row.Close - row.Open ELSE row.Open - row.Close
Bullish(row) == row.Close > row.Open
Bearish(row) == row.Close < row.Open
DojiShape(row) == Body(row) < DojiBody /\ row.High - row.Low > DojiRange
HammerShape(row) ==
    /\ row.Close > row.Open
    /\ row.Open - row.Low > 2 * Body(row)
    /\ row.High - row.Close < Body(row)

\* C5: detect emits an Engulfing event at candle i's timestamp exactly when
\* i is not the first candle, candle i-1 is bearish, candle i is bullish,
\* closes above candle i-1's open and opens below candle i-1's close; so
\* never at the first candle, and never for a bearish candle that contains
\* a bullish one.
C5_EngulfingIffBullish ==
    dpc = "done" =>
        /\ \A i \in DOMAIN df :
              HasEvent(patterns, df[i].Index, "Engulfing") <=>
                 /\ i > 1
                 /\ Bearish(df[i - 1])
                 /\ Bullish(df[i])
                 /\ df[i].Close > df[i - 1].Open
                 /\ df[i].Open < df[i - 1].Close
        /\ df # << >> => ~HasEvent(patterns, df[1].Index, "Engulfing")
        /\ \A i \in DOMAIN df :
              (/\ i > 1
               /\ Bullish(df[i - 1])
               /\ Bearish(df[i])
               /\ df[i].Open >= df[i - 1].Close
               /\ df[i].Close <= df[i - 1].Open) => ~HasEvent(patterns, df[i].Index, "Engulfing")

C5_Witness ==
    /\ dpc = "done"
    /\ Len(df) = 2
    /\ Bearish(df[1]) /\ Bullish(df[2])
    /\ df[2].Close > df[1].Open /\ df[2].Open < df[1].Close
    /\ patterns = << [Time |-> df[2].Index, Pattern |-> "Engulfing"] >>

\* C6, as claimed: every candle with close > open, (open - low) > 2*body
\* and (high - close) < body carries a Hammer event.
C6_HammerWheneverShaped ==
    dpc = "done" =>
        \A i \in DOMAIN df : HammerShape(df[i]) => HasEvent(patterns, df[i].Index, "Hammer")

\* C6, amended: every candle with close > open, (open - low) > 2*body and
\* (high - close) < body that is not a Doji (not both body < 0.03 and
\* high - low > 0.1) carries a Hammer event.
C6_HammerUnlessDoji ==
    dpc = "done" =>
        \A i \in DOMAIN df :
            (HammerShape(df[i]) /\ ~DojiShape(df[i])) => HasEvent(patterns, df[i].Index, "Hammer")

C6_Witness ==
    /\ dpc = "done"
    /\ Len(df) = 2
    /\ HammerShape(df[1]) /\ DojiShape(df[1])
    /\ HammerShape(df[2]) /\ ~DojiShape(df[2])
    /\ patterns = << [Time |-> df[1].Index, Pattern |-> "Doji"],
                     [Time |-> df[2].Index, Pattern |-> "Hammer"] >>

\* C10: the events detect returns carry timestamps of the series, in
\* non-decreasing order; a candle has at most two events, never both a Doji
\* and a Hammer, and an Engulfing that shares its candle with a Doji or a
\* Hammer comes after it; an empty series gives no event.
C10_EventListShape ==
    dpc = "done" =>
        /\ \A k \in DOMAIN patterns : \E i \in DOMAIN df : patterns[k].Time = df[i].Index
        /\ \A k \in DOMAIN patterns : k > 1 => patterns[k - 1].Time <= patterns[k].Time
        /\ \A i \in DOMAIN df : Cardinality(EventsAt(patterns, df[i].Index)) <= 2
        /\ \A i \in DOMAIN df :
              ~(HasEvent(patterns, df[i].Index, "Doji") /\ HasEvent(patterns, df[i].Index, "Hammer"))
        /\ \A j, k \in DOMAIN patterns :
              (j < k /\ patterns[j].Time = patterns[k].Time) =>
                 /\ patterns[j].Pattern \in {"Doji", "Hammer"}
                 /\ patterns[k].Pattern = "Engulfing"
        /\ df = << >> => patterns = << >>

C10_Witness ==
    /\ dpc = "done"
    /\ Len(df) = 2
    /\ patterns = << [Time |-> df[1].Index, Pattern |-> "Doji"],
                     [Time |-> df[2].Index, Pattern |-> "Hammer"],
                     [Time |-> df[2].Index, Pattern |-> "Engulfing"] >>

\* the run has read the selection
ChoiceMade == pc \in {"invalid_option", "download", "no_data", "done"}
\* the run is past the listing retrieval
ListPresented == pc \notin {"start", "ask_count", "scraping", "invalid_category"}
Kinds(files) == { files[k].kind : k \in DOMAIN files }
\* the typed selection is an integer, and which
IsInteger(s) == \E n \in NumRange : ToString(n) = s
IntegerOf(s) == CHOOSE n \in NumRange : ToString(n) = s

\* C1: once the selection is read, a selection that is no integer or is an
\* integer outside 1 .. length of the presented list has ended the run as
\* an invalid selection: no ticker, no series, no file.
C1_BadSelectionHalts ==
    (ChoiceMade /\ (~IsInteger(choice) \/ IntegerOf(choice) < 1
                                        \/ IntegerOf(choice) > Len(ticker_list))) =>
        /\ pc = "invalid_option"
        /\ ticker = ""
        /\ data = << >>
        /\ written = << >>

\* C4: with category '1' or '2', whatever the scrape did (returned symbols,
\* returned the empty list, raised, or was not reached because the count
\* was no integer), the run is not ended by it: past the retrieval it is at
\* the selection prompt or beyond, with the scraped list when there is one
\* and the category's five default tickers otherwise.
C4_RetrievalNeverFatal ==
    (category \in {"1", "2"} /\ ListPresented) =>
        /\ pc \in {"ask_choice", "invalid_option", "download", "no_data", "done"}
        /\ ticker_list # << >>
        /\ IF scraped.kind = "returned" /\ scraped.value # << >>
           THEN ticker_list = scraped.value /\ ~fallback
           ELSE /\ fallback
                /\ Len(ticker_list) = 5
                /\ category = "1" => ticker_list = <<"AAPL", "MSFT", "GOOG", "AMZN", "TSLA">>
                /\ category = "2" => ticker_list = <<"VFIAX", "SWPPX", "FXAIX", "VTSAX", "SPY">>

C4_Witness ==
    /\ pc = "ask_choice"
    /\ category = "2"
    /\ scraped.kind = "raised"
    /\ ticker_list = <<"VFIAX", "SWPPX", "FXAIX", "VTSAX", "SPY">>

\* C7: a chart file exists only in a run whose category was '1' or '2',
\* whose selection picked a ticker of the list and whose series is not
\* empty; a pattern file exists only after the chart file of the same run
\* and with at least one event; a run ended by an invalid category or by
\* an empty series has written nothing.
C7_FilesOnlyAfterValidation ==
    /\ "chart" \in Kinds(written) =>
          /\ category \in {"1", "2"}
          /\ IsInteger(choice)
          /\ \E k \in DOMAIN ticker_list : ticker_list[k] = ticker
          /\ data # << >>
    /\ \A k \in DOMAIN written : written[k].kind = "csv" =>
          /\ \E j \in 1..(k - 1) : written[j].kind = "chart"
          /\ patterns # << >>
          /\ data # << >>
    /\ pc \in {"invalid_category", "no_data"} => written = << >>

C7_Witness ==
    /\ pc = "done"
    /\ category = "1"
    /\ ~fallback
    /\ choice = "2"
    /\ ticker = "BBB"
    /\ Len(written) = 2
    /\ written[1].kind = "chart" /\ written[2].kind = "csv"
    /\ patterns # << >>

====
